---- MODULE Spec2Model ----
(***************************************************************************)
(* box.py: the create command (cache-aware, checksum-verified download of  *)
(* an Ubuntu cloud image) and the command-line front end around it.        *)
(*                                                                         *)
(* Text that the code splits or searches is a sequence of pieces (strings);*)
(* a space is a piece of its own, so splitting on " " and substring search *)
(* work on pieces as the Python and shell code work on characters.  A file *)
(* is its content, named by a string; the manifest is a sequence of lines. *)
(***************************************************************************)
EXTENDS Integers, Sequences, FiniteSets, TLC

MaxLines == 2          \* longest manifest drawn
NumProcs == 2          \* invocations of the program at the same time
MaxRuns == 2           \* invocations of the program one after the other

Procs == 1..NumProcs

(* ----------------------------- data ----------------------------------- *)

ubuntu_version == "18.04"

_img == <<"ubuntu-", ubuntu_version, "-server-cloudimg-amd64.img">>

Absent == "absent"

\* contents a file at the cache path can have
Bytes == {"imgA", "imgB", "empty", "partial"}

\* sha256 of each content, as the hex token sha256sum prints
Sha256 == [b \in Bytes |->
             CASE b = "imgA" -> "a1"
               [] b = "imgB" -> "b2"
               [] b = "empty" -> "e3"
               [] b = "partial" -> "p4"]

\* XDG_CACHE_HOME values: one plain path, one holding a space
CacheDirs == { <<"/home/u/.cache">>, <<"/home/u/my", " ", "cache">> }

\* os.path.join(CACHE_DIR, self._img)
CachePath(dir) == dir \o <<"/">> \o _img

\* one line of SHA256SUMS: "<digest> *<name>\n"
Line(d, name) == <<d, " ", "*">> \o name \o <<"\n">>

OtherImg == <<"ubuntu-", ubuntu_version, "-server-cloudimg-arm64.img">>

\* lines a manifest is made of: the image's entry, the entry of a file whose
\* name begins with the image's, the entry of another image, a line that
\* begins with a space, a line without a space
Lines == { Line("a1", _img),
           Line("b2", _img \o <<".sig">>),
           Line("b2", OtherImg),
           <<" ">> \o _img \o <<"\n">>,
           _img \o <<"\n">> }

\* what wget can leave in SHA256SUMS: nothing (failed transfer) or some lines
Manifests == UNION { [1..n -> Lines] : n \in 0..MaxLines }

\* the manifest and the image of a server that publishes imgA
PublishedManifest == << Line("b2", OtherImg), Line("a1", _img) >>

\* what a transfer of the image can leave at the cache path
Transfers == {"imgA", "imgB", "empty"}

(* ----------------------------- text ----------------------------------- *)

None == <<"<None>">>

\* Python truthiness of expected_sum: None and '' are false
Falsy(x) == x = None \/ x = <<>>

\* needle in line
IsIn(needle, line) ==
  \E i \in 0..(Len(line) - Len(needle)) :
     SubSeq(line, i + 1, i + Len(needle)) = needle

RECURSIVE FieldEnd(_, _)
\* index of the last piece before the first " " at or after i
FieldEnd(s, i) == IF i > Len(s) \/ s[i] = " " THEN i - 1 ELSE FieldEnd(s, i + 1)

\* s.split(' ')[0]
split0(s) == SubSeq(s, 1, FieldEnd(s, 1))

RECURSIVE ShellWords(_)
\* the words /bin/sh makes of an unquoted command line
ShellWords(s) ==
  IF s = <<>> THEN <<>>
  ELSE IF Head(s) = " " THEN ShellWords(Tail(s))
  ELSE LET n == FieldEnd(s, 1)
       IN <<SubSeq(s, 1, n)>> \o ShellWords(SubSeq(s, n + 1, Len(s)))

(* --------------------------- sha256sum --------------------------------- *)

\* cmd = 'sha256sum ' + os.path.join(self.CACHE_DIR, self._img)
ShaCmd(dir) == <<"sha256sum", " ">> \o CachePath(dir)

\* What subprocess.getoutput(cmd) can return when the cache file exists with
\* content file.  The shell splits cmd into words.  When the file operand is
\* the cache path itself, sha256sum prints the digest of the cache file.
\* When the path was split (it holds a space), the first operand names
\* something else: sha256sum prints the digest of whatever file is there, or
\* its error message.
ShaOutputs(dir, file) ==
  LET operands == Tail(ShellWords(ShaCmd(dir)))
  IN IF operands = << CachePath(dir) >>
       THEN { <<Sha256[file], " ", " ">> \o CachePath(dir) }
       ELSE { <<Sha256[b], " ", " ">> \o operands[1] : b \in Bytes }
            \cup { <<"sha256sum:", " ">> \o operands[1]
                     \o <<":", " ", "No", " ", "such", " ", "file">> }

(* --------------------------- _checksum --------------------------------- *)

RECURSIVE scan(_, _)
\* the for loop over fobj.readlines(): the first field of the first line
\* that holds the image name, None when no line does
scan(lines, i) ==
  IF i > Len(lines) THEN None
  ELSE IF IsIn(_img, lines[i]) THEN split0(lines[i])
  ELSE scan(lines, i + 1)

\* _checksum taking the last field of sha256sum's output, the path, for the
\* calculated sum
_checksum_last_field(lines, file, output) ==
  LET expected_sum == scan(lines, 1)
  IN IF Falsy(expected_sum) THEN "raise"
     ELSE IF file # Absent
            THEN (IF <<output[Len(output)]>> = expected_sum
                    THEN "True" ELSE "False")
            ELSE "False"

\* _checksum looking at the cache file before it looks for the expected sum
_checksum_file_first(lines, file, output) ==
  LET expected_sum == scan(lines, 1)
  IN IF file = Absent THEN "False"
     ELSE IF Falsy(expected_sum) THEN "raise"
     ELSE IF split0(output) = expected_sum THEN "True" ELSE "False"

\* _checksum with the manifest wget fetched (lines), the content of the
\* cache file (Absent when os.path.exists is false) and the output of
\* sha256sum: "raise" (AttributeError), "True" or "False"
_checksum(lines, file, output) ==
  LET expected_sum == scan(lines, 1)
  IN IF Falsy(expected_sum) THEN "raise"
     ELSE IF file # Absent
            THEN (IF split0(output) = expected_sum THEN "True" ELSE "False")
            ELSE "False"

(* ----------------------------- state ----------------------------------- *)

VARIABLES
  CACHE_DIR,   \* the cache directory, fixed when the class is defined
  cache,       \* content of CACHE_DIR/_img, or Absent
  writers,     \* invocations whose wget holds the cache file open
  pc,          \* position of each invocation in main / run
  args,        \* the command each invocation parsed
  tmp,         \* self._tmp: the temporary directory and SHA256SUMS in it
  exc,         \* the exception in flight or caught
  out,         \* what each invocation printed
  status,      \* exit status, -1 while running
  downloads,   \* image transfers each invocation started
  hist,        \* each invocation's record of what it saw
  prev,        \* what the invocation before this one did
  runs         \* invocations started one after the other

vars == <<CACHE_DIR, cache, writers, pc, args, tmp, exc, out, status,
          downloads, hist, prev, runs>>

\* the sub-command parse_args found: create, completion, or none given
Commands == {"create", "completion", "none"}

NoExc == [type |-> "", msg |-> ""]

AttributeError(m) == [type |-> "AttributeError", msg |-> m]

ManifestEntryMissing == AttributeError("Cannot find provided cloud image")

ChecksumMismatch ==
  AttributeError("Checksum for downloaded image differ from expected")

NoFunc == AttributeError("'Namespace' object has no attribute 'func'")

\* the temporary directory: whether it exists, and the files in it
NoTmp == [state |-> "none", files |-> {}]

\* of this invocation: for each _checksum call whether the manifest named
\* the image, the expected sum, the cache content looked at and the result;
\* the bytes its transfer delivered; the invocations whose transfers ran
\* during its own; whether another transfer ran during its second _checksum
NoHist == [named |-> <<>>, exp |-> <<>>, seen |-> <<>>, res |-> <<>>,
           got |-> "none", over |-> {}, raced |-> FALSE]

\* of the invocation before: whether there was one, its exception, the
\* results of its _checksum calls and the expected sum of the first
NoPrev == [ran |-> FALSE, exc |-> NoExc, res |-> <<>>, exp |-> None]

Init ==
  /\ CACHE_DIR \in CacheDirs
  /\ cache \in Transfers \cup {Absent}
  /\ writers = {}
  /\ pc = [p \in Procs |-> "start"]
  /\ args = [p \in Procs |-> "none"]
  /\ tmp = [p \in Procs |-> NoTmp]
  /\ exc = [p \in Procs |-> NoExc]
  /\ out = [p \in Procs |-> <<>>]
  /\ status = [p \in Procs |-> -1]
  /\ downloads = [p \in Procs |-> 0]
  /\ hist = [p \in Procs |-> NoHist]
  /\ prev = NoPrev
  /\ runs = 1

(* ----------------------------- main ------------------------------------ *)

\* args = parser.parse_args(): one of the sub-commands, or none of them
main_parse(p, C) ==
  /\ pc[p] = "start"
  /\ \E c \in C : args' = [args EXCEPT ![p] = c]
  /\ pc' = [pc EXCEPT ![p] = "dispatch"]
  /\ UNCHANGED <<CACHE_DIR, cache, writers, tmp, exc, out, status,
                 downloads, hist, prev, runs>>

\* a dispatch in which completion has a func that does nothing
main_dispatch_noop(p) ==
  /\ pc[p] = "dispatch"
  /\ IF args[p] = "create"
       THEN /\ pc' = [pc EXCEPT ![p] = "prepare_temp"]
            /\ exc' = exc
       ELSE IF args[p] = "completion"
       THEN /\ pc' = [pc EXCEPT ![p] = "return"]
            /\ exc' = exc
       ELSE /\ pc' = [pc EXCEPT ![p] = "except"]
            /\ exc' = [exc EXCEPT ![p] = NoFunc]
  /\ UNCHANGED <<CACHE_DIR, cache, writers, args, tmp, out, status,
                 downloads, hist, prev, runs>>

\* return args.func(args): only create sets func (to _create, which builds
\* VMCreate and enters run); any other Namespace has no attribute func
main_dispatch(p) ==
  /\ pc[p] = "dispatch"
  /\ IF args[p] = "create"
       THEN /\ pc' = [pc EXCEPT ![p] = "prepare_temp"]
            /\ exc' = exc
       ELSE /\ pc' = [pc EXCEPT ![p] = "except"]
            /\ exc' = [exc EXCEPT ![p] = NoFunc]
  /\ UNCHANGED <<CACHE_DIR, cache, writers, args, tmp, out, status,
                 downloads, hist, prev, runs>>

\* self._tmp = tempfile.mkdtemp()
_prepare_temp(p) ==
  /\ pc[p] = "prepare_temp"
  /\ tmp' = [tmp EXCEPT ![p].state = "exists"]
  /\ pc' = [pc EXCEPT ![p] = "check"]
  /\ UNCHANGED <<CACHE_DIR, cache, writers, args, exc, out, status,
                 downloads, hist, prev, runs>>

\* the outputs sha256sum can give for the cache file as it is now
ShaNow == IF cache = Absent THEN { <<>> } ELSE ShaOutputs(CACHE_DIR, cache)

\* some line of the manifest holds the image name
Names(lines) == \E i \in 1..Len(lines) : IsIn(_img, lines[i])

\* what a call of _checksum leaves in hist: whether the manifest named the
\* image, the expected sum taken from it, the cache content looked at, the
\* result
Seen(h, lines, r) ==
  [h EXCEPT !.named = Append(@, Names(lines)),
            !.exp = Append(@, scan(lines, 1)),
            !.seen = Append(@, cache),
            !.res = Append(@, r)]

\* _download_image up to its first return: if self._checksum(): print, return
_download_image_cached(p, M) ==
  /\ pc[p] = "check"
  /\ \E lines \in M, output \in ShaNow :
       LET r == _checksum(lines, cache, output)
       IN /\ tmp' = [tmp EXCEPT ![p].files = {"SHA256SUMS"}]
          /\ hist' = [hist EXCEPT ![p] = Seen(@, lines, r)]
          /\ exc' = IF r = "raise"
                      THEN [exc EXCEPT ![p] = ManifestEntryMissing] ELSE exc
          /\ out' = IF r = "True"
                      THEN [out EXCEPT ![p] = Append(@, "Image already downloaded")]
                      ELSE out
          /\ pc' = [pc EXCEPT ![p] = IF r = "False" THEN "wget" ELSE "cleanup"]
  /\ UNCHANGED <<CACHE_DIR, cache, writers, args, status, downloads, prev, runs>>

\* print('Downloading image'); wget -O starts and truncates the cache file
wget_open(p) ==
  /\ pc[p] = "wget"
  /\ out' = [out EXCEPT ![p] = Append(@, "Downloading image")]
  /\ cache' = "empty"
  /\ writers' = writers \cup {p}
  /\ downloads' = [downloads EXCEPT ![p] = @ + 1]
  /\ hist' = [q \in Procs |->
                IF q = p THEN [hist[q] EXCEPT !.over = writers]
                ELSE IF q \in writers THEN [hist[q] EXCEPT !.over = @ \cup {p}]
                ELSE hist[q]]
  /\ pc' = [pc EXCEPT ![p] = "transfer"]
  /\ UNCHANGED <<CACHE_DIR, args, tmp, exc, status, prev, runs>>

\* The contents the cache file can have when p's wget ends having written b.
\* Alone, the file is b.  When another wget had the file open meanwhile,
\* each truncated what the other had written: the file is whole only once
\* the last of them has ended and all wrote the same bytes.
Written(p, b) ==
  IF hist[p].over = {} THEN {b}
  ELSE IF writers \ {p} = {} /\ \A q \in hist[p].over : hist[q].got = b
         THEN {b}
         ELSE {b, "partial"}

\* wget ends: subprocess.call returns, its status ignored
wget_close(p, T) ==
  /\ pc[p] = "transfer"
  /\ \E b \in T :
       /\ cache' \in Written(p, b)
       /\ hist' = [hist EXCEPT ![p].got = b]
  /\ writers' = writers \ {p}
  /\ pc' = [pc EXCEPT ![p] = "verify"]
  /\ UNCHANGED <<CACHE_DIR, args, tmp, exc, out, status, downloads, prev, runs>>

\* if not self._checksum(): raise AttributeError(...) else: print
_download_image_verify(p, M) ==
  /\ pc[p] = "verify"
  /\ \E lines \in M, output \in ShaNow :
       LET r == _checksum(lines, cache, output)
       IN /\ tmp' = [tmp EXCEPT ![p].files = {"SHA256SUMS"}]
          /\ hist' = [hist EXCEPT ![p] =
                        [Seen(@, lines, r) EXCEPT !.raced = (writers # {})]]
          /\ exc' = [exc EXCEPT ![p] =
                       CASE r = "raise" -> ManifestEntryMissing
                         [] r = "False" -> ChecksumMismatch
                         [] OTHER -> @]
          /\ out' = IF r = "True"
                      THEN [out EXCEPT ![p] = Append(@, "downloaded image")]
                      ELSE out
  /\ pc' = [pc EXCEPT ![p] = "cleanup"]
  /\ UNCHANGED <<CACHE_DIR, cache, writers, args, status, downloads, prev, runs>>

\* the cleanup after the try body instead of in finally: skipped when an
\* exception is in flight
_cleanup_no_finally(p) ==
  /\ pc[p] = "cleanup"
  /\ tmp' = IF exc[p] = NoExc
              THEN [tmp EXCEPT ![p] = [state |-> "removed", files |-> {}]]
              ELSE tmp
  /\ pc' = [pc EXCEPT ![p] = IF exc[p] = NoExc THEN "return" ELSE "except"]
  /\ UNCHANGED <<CACHE_DIR, cache, writers, args, exc, out, status,
                 downloads, hist, prev, runs>>

\* finally: subprocess.call(['rm', '-fr', self._tmp]); run then returns or
\* lets the exception go on to main
_cleanup(p) ==
  /\ pc[p] = "cleanup"
  /\ tmp' = [tmp EXCEPT ![p] =
               [state |-> "removed", files |-> {}]]
  /\ pc' = [pc EXCEPT ![p] = IF exc[p] = NoExc THEN "return" ELSE "except"]
  /\ UNCHANGED <<CACHE_DIR, cache, writers, args, exc, out, status,
                 downloads, hist, prev, runs>>

\* main returns what args.func returned; the interpreter exits with 0
main_return(p) ==
  /\ pc[p] = "return"
  /\ status' = [status EXCEPT ![p] = 0]
  /\ pc' = [pc EXCEPT ![p] = "exited"]
  /\ UNCHANGED <<CACHE_DIR, cache, writers, args, tmp, exc, out,
                 downloads, hist, prev, runs>>

\* an except clause that reports the checksum error as an error of its own:
\* parser.error(str(e)) prints the message and exits with status 2
main_except_error(p) ==
  /\ pc[p] = "except"
  /\ exc[p].type = "AttributeError"
  /\ out' = [out EXCEPT ![p] =
               Append(@, IF exc[p] = ChecksumMismatch THEN exc[p].msg ELSE "usage")]
  /\ status' = [status EXCEPT ![p] = IF exc[p] = ChecksumMismatch THEN 2 ELSE 0]
  /\ pc' = [pc EXCEPT ![p] = "exited"]
  /\ UNCHANGED <<CACHE_DIR, cache, writers, args, tmp, exc, downloads, hist,
                 prev, runs>>

\* except AttributeError: parser.print_help(); parser.exit()
main_except(p) ==
  /\ pc[p] = "except"
  /\ exc[p].type = "AttributeError"
  /\ out' = [out EXCEPT ![p] = Append(@, "usage")]
  /\ status' = [status EXCEPT ![p] = 0]
  /\ pc' = [pc EXCEPT ![p] = "exited"]
  /\ UNCHANGED <<CACHE_DIR, cache, writers, args, tmp, exc, downloads, hist,
                 prev, runs>>

\* one step of invocation p, its command line one of C, its network
\* delivering manifests from M and image transfers from T
Step(p, C, M, T) ==
  \/ main_parse(p, C)
  \/ main_dispatch(p)
  \/ _prepare_temp(p)
  \/ _download_image_cached(p, M)
  \/ wget_open(p)
  \/ wget_close(p, T)
  \/ _download_image_verify(p, M)
  \/ _cleanup(p)
  \/ main_return(p)
  \/ main_except(p)

\* the program is run again once it has exited: a new process, the cache
\* directory as the last one left it
again(p) ==
  /\ pc[p] = "exited"
  /\ runs < MaxRuns
  /\ runs' = runs + 1
  /\ prev' = [ran |-> TRUE, exc |-> exc[p], res |-> hist[p].res,
              exp |-> IF hist[p].exp = <<>> THEN None ELSE hist[p].exp[1]]
  /\ pc' = [pc EXCEPT ![p] = "start"]
  /\ args' = [args EXCEPT ![p] = "none"]
  /\ tmp' = [tmp EXCEPT ![p] = NoTmp]
  /\ exc' = [exc EXCEPT ![p] = NoExc]
  /\ out' = [out EXCEPT ![p] = <<>>]
  /\ status' = [status EXCEPT ![p] = -1]
  /\ downloads' = [downloads EXCEPT ![p] = 0]
  /\ hist' = [hist EXCEPT ![p] = NoHist]
  /\ UNCHANGED <<CACHE_DIR, cache, writers>>

\* the invocation of the runs one after the other
Main == 1

\* one invocation at a time, each started after the one before has exited
Next == Step(Main, Commands, Manifests, Transfers) \/ again(Main)

Spec == Init /\ [][Next]_vars

\* create commands at the same time, against a server that publishes imgA
\* and a network that delivers it whole
NextConc ==
  \E p \in Procs : Step(p, {"create"}, {PublishedManifest}, {"imgA"})

\* the same, the cache directory one whose path the shell leaves whole
InitConc == Init /\ CACHE_DIR = <<"/home/u/.cache">>

SpecConc == InitConc /\ [][NextConc]_vars

(* ---------------------------- properties ------------------------------ *)

\* _download_image has returned or raised in invocation p
Returned(p) ==
  args[p] = "create" /\ pc[p] \in {"cleanup", "return", "except", "exited"}

\* _download_image has returned without an exception
Succeeded(p) == Returned(p) /\ exc[p] = NoExc

\* the file content c has the digest e, a first field taken from a manifest
Matches(c, e) == c # Absent /\ ~Falsy(e) /\ e = <<Sha256[c]>>

\* the shell hands sha256sum the cache path as one operand
PlainPath == Tail(ShellWords(ShaCmd(CACHE_DIR))) = << CachePath(CACHE_DIR) >>

\* C1: cache hit.  When the cache file's digest equals the digest of the
\* manifest entry, _download_image starts no transfer, leaves the file as it
\* was and returns without an exception; and when the invocation before was
\* such a hit against the same entry, this one is a hit again.
C1_CacheHit ==
  \A p \in Procs :
    /\ (Returned(p) /\ Matches(hist[p].seen[1], hist[p].exp[1]))
         => /\ downloads[p] = 0
            /\ cache = hist[p].seen[1]
            /\ exc[p] = NoExc
            /\ hist[p].res = <<"True">>
    /\ (/\ Returned(p)
        /\ prev.ran /\ prev.exc = NoExc /\ prev.res = <<"True">>
        /\ prev.exp = hist[p].exp[1])
         => /\ downloads[p] = 0
            /\ exc[p] = NoExc
            /\ hist[p].res = <<"True">>

\* C1 on a cache path the shell does not split
C1_PlainPath == PlainPath => C1_CacheHit

\* C2: cache miss.  When the cache file is absent and each manifest fetched
\* has an entry whose digest is that of the bytes the transfer delivers,
\* _download_image makes exactly one transfer and returns without an
\* exception.
C2_CacheMiss ==
  \A p \in Procs :
    (/\ Returned(p)
     /\ hist[p].seen[1] = Absent
     /\ \A i \in 1..Len(hist[p].exp) : ~Falsy(hist[p].exp[i])
     /\ hist[p].got # "none" =>
          \A i \in 1..Len(hist[p].exp) : hist[p].exp[i] = <<Sha256[hist[p].got]>>)
      => /\ downloads[p] = 1
         /\ exc[p] = NoExc
         /\ hist[p].res = <<"False", "True">>

\* C2 on a cache path the shell does not split
C2_PlainPath == PlainPath => C2_CacheMiss

\* C3: on every return of _download_image without an exception the cache
\* file exists and its digest is that of the manifest entry the last
\* _checksum call used.
C3_VerifiedOnSuccess ==
  \A p \in Procs :
    (Succeeded(p) /\ pc[p] = "cleanup")
      => Matches(cache, hist[p].exp[Len(hist[p].exp)])

\* C3 on a cache path the shell does not split
C3_PlainPath == PlainPath => C3_VerifiedOnSuccess

\* C4: a manifest with no line holding the image name makes _checksum raise
\* the AttributeError 'Cannot find provided cloud image', and
\* _download_image with it, whether the cache file is absent or present
\* with any digest.
C4_MissingEntry ==
  \A p \in Procs :
    \A i \in 1..Len(hist[p].named) :
      ~hist[p].named[i]
        => /\ hist[p].res[i] = "raise"
           /\ i = Len(hist[p].named)
           /\ exc[p] = ManifestEntryMissing
           /\ pc[p] \in {"cleanup", "except", "exited"}

\* C4 case: the manifest named no image while the cache file matched nothing
\* or something, here a cache file that is present
C4_Witness ==
  \E p \in Procs :
    /\ hist[p].named = <<FALSE>>
    /\ hist[p].seen = <<"imgA">>
    /\ exc[p] = ManifestEntryMissing
    /\ pc[p] = "exited"

\* C5: no retry.  When the file present after the transfer does not have the
\* digest of the manifest entry, _download_image raises the checksum
\* AttributeError after exactly one transfer; no invocation makes a second.
C5_NoRetry ==
  \A p \in Procs :
    /\ downloads[p] <= 1
    /\ (/\ Len(hist[p].seen) = 2
        /\ ~Falsy(hist[p].exp[2])
        /\ hist[p].seen[2] # Absent
        /\ ~Matches(hist[p].seen[2], hist[p].exp[2]))
         => (exc[p] = ChecksumMismatch /\ downloads[p] = 1)

\* C5 on a cache path the shell does not split
C5_PlainPath == PlainPath => C5_NoRetry

\* C6: when run has ended, by return or by either exception, the temporary
\* directory it made is gone.
C6_TempReleased ==
  \A p \in Procs :
    /\ (args[p] = "create" /\ pc[p] \in {"return", "except", "exited"})
         => (tmp[p].state = "removed" /\ tmp[p].files = {})
    /\ tmp[p].state = "exists"
         => pc[p] \in {"check", "wget", "transfer", "verify", "cleanup"}

\* C6 case: one run ended with the missing-entry error and the next with the
\* checksum error, the directory of each removed
C6_Witness ==
  /\ prev.ran /\ prev.exc = ManifestEntryMissing
  /\ exc[Main] = ChecksumMismatch
  /\ pc[Main] = "exited"
  /\ tmp[Main].state = "removed"

\* C7: recovery.  After an invocation that failed with the checksum error
\* and left a file whose digest is not that of the manifest entry, the next
\* invocation's first _checksum is false, it transfers the image again, and
\* it returns without an exception when the new bytes have the entry's
\* digest.
C7_Recovery ==
  \A p \in Procs :
    (/\ Returned(p)
     /\ prev.ran /\ prev.exc = ChecksumMismatch
     /\ hist[p].seen[1] # Absent
     /\ ~Falsy(hist[p].exp[1])
     /\ ~Matches(hist[p].seen[1], hist[p].exp[1]))
      => /\ hist[p].res[1] = "False"
         /\ downloads[p] = 1
         /\ (Len(hist[p].exp) = 2 /\ Matches(hist[p].got, hist[p].exp[2]))
              => exc[p] = NoExc

\* C7 on a cache path the shell does not split
C7_PlainPath == PlainPath => C7_Recovery

\* C8: main handles the missing-entry error and the checksum error alike,
\* and as it handles a command without func: the last thing printed is the
\* usage text, the error message is not printed, the exit status is 0.
C8_ErrorCollapse ==
  \A p \in Procs :
    (pc[p] = "exited" /\ exc[p] # NoExc)
      => /\ status[p] = 0
         /\ out[p] # <<>>
         /\ out[p][Len(out[p])] = "usage"
         /\ \A i \in 1..Len(out[p]) : out[p][i] # exc[p].msg

\* C8 case: a run exits on the checksum error after a run that exited on
\* the missing-entry error
C8_Witness ==
  /\ prev.ran /\ prev.exc = ManifestEntryMissing
  /\ exc[Main] = ChecksumMismatch
  /\ pc[Main] = "exited"
  /\ status[Main] = 0

\* C9 as stated: the completion command prints nothing on any path
C9_NoOutput ==
  \A p \in Procs : args[p] = "completion" => out[p] = <<>>

\* C9: the completion command is accepted, touches neither cache nor
\* temporary directory, prints the usage text and nothing else, and exits
\* with status 0.
C9_PrintsUsage ==
  \A p \in Procs :
    (args[p] = "completion" /\ pc[p] # "start")
      => /\ downloads[p] = 0
         /\ tmp[p] = NoTmp
         /\ pc[p] = "exited" => (out[p] = <<"usage">> /\ status[p] = 0)
         /\ pc[p] # "exited" => out[p] = <<>>

\* C9 case: a completion command that has exited
C9_Witness ==
  \E p \in Procs : args[p] = "completion" /\ pc[p] = "exited"

\* C10: with every manifest and every transfer right and the cache path
\* plain, an invocation raises the checksum error only when its second
\* _checksum read the file while another invocation's wget had it open:
\* nothing keeps the two apart.
C10_RaceOnly ==
  \A p \in Procs :
    (PlainPath /\ exc[p] = ChecksumMismatch)
      => (hist[p].raced /\ hist[p].got = "imgA")

\* C10 case: p transferred the published image whole, q's wget then opened
\* the file, and p's _checksum of it raised the checksum error
C10_Witness ==
  \E p \in Procs, q \in Procs :
    /\ p # q
    /\ PlainPath
    /\ pc[p] = "cleanup"
    /\ exc[p] = ChecksumMismatch
    /\ hist[p].got = "imgA"
    /\ q \in writers

====
